---- MODULE Spec2Model ----
(***************************************************************************)
(* The HTTP front door of hraftd (http/service.go): ServeHTTP's routing,   *)
(* the key, join and status handlers, the two Prometheus vectors they      *)
(* update, and the Store they call.                                         *)
(*                                                                         *)
(* Strings that the code takes apart (URL paths, JSON text, keys) are      *)
(* sequences of one-character strings; JSON text is a sequence of tokens.  *)
(* Every request is served by its own goroutine (net/http): a worker of    *)
(* the model.  A step of a worker runs the handler up to and including its *)
(* next Store call; the Store calls and the metric updates are the only    *)
(* accesses to shared state, and each is atomic.                            *)
(***************************************************************************)
EXTENDS Integers, Sequences, FiniteSets, TLC

\* ------------------------------------------------------------------ bounds
\* Requests accepted in one behaviour, and goroutines serving at once.
MaxRequests == 2
NumWorkers == 2
\* Service values of one process, and Start and Close calls made on them.
NumServices == 2
MaxCalls == 3

Workers == 1..NumWorkers
Services == 1..NumServices

\* ----------------------------------------------------------------- strings
KeyPrefix == <<"/", "k", "e", "y">>
JoinPath == <<"/", "j", "o", "i", "n">>
StatusPath == <<"/", "s", "t", "a", "t", "u", "s">>
AddrField == <<"a", "d", "d", "r">>
IdField == <<"i", "d">>
EndpointKey == "/key"

\* net/http status codes used by the handlers.
StatusOK == 200
StatusBadRequest == 400
StatusNotFound == 404
StatusMethodNotAllowed == 405
StatusInternalServerError == 500

\* strings.HasPrefix
HasPrefix(s, prefix) ==
  /\ Len(s) >= Len(prefix)
  /\ SubSeq(s, 1, Len(prefix)) = prefix

\* strings.Split(s, sep) for a one-character separator: the pieces between
\* the separators, empty pieces included.
RECURSIVE SplitFrom(_, _, _, _)
SplitFrom(s, sep, i, cur) ==
  IF i > Len(s) THEN <<cur>>
  ELSE IF s[i] = sep THEN <<cur>> \o SplitFrom(s, sep, i + 1, <<>>)
  ELSE SplitFrom(s, sep, i + 1, Append(cur, s[i]))

Split(s, sep) == SplitFrom(s, sep, 1, <<>>)

\* fmt.Sprint of a status code: its decimal text.
Sprint(code) == ToString(code)

\* ------------------------------------------------------------------- JSON
\* A token of JSON text: punctuation, a string literal (s: its characters as
\* written, escapes included), a number literal, or null.
Tok(t) == [t |-> t, s |-> <<>>]
StrTok(s) == [t |-> "str", s |-> s]

EscLt == "\\u003c"

\* A string literal's value: the escape EscLt stands for the character <.
Unquote(s) == [i \in 1..Len(s) |-> IF s[i] = EscLt THEN "<" ELSE s[i]]

\* json.Marshal writes the character < as the escape EscLt (HTML escaping).
Quote(s) == [i \in 1..Len(s) |-> IF s[i] = "<" THEN EscLt ELSE s[i]]

EmptyMap == [x \in {} |-> <<>>]
MapSet(m, k, v) == [x \in DOMAIN m \cup {k} |-> IF x = k THEN v ELSE m[x]]

DecodeError == [err |-> TRUE, m |-> EmptyMap]

\* The members of an object, toks[i] being where a key is expected.  A value
\* that is not a string is an UnmarshalTypeError: decoding goes on and the
\* error is returned at the end.  A repeated key keeps its last value.
RECURSIVE decodeMembers(_, _, _, _)
decodeMembers(toks, i, m, typeErr) ==
  IF i + 3 > Len(toks) THEN DecodeError
  ELSE IF ~(/\ toks[i].t = "str"
            /\ toks[i + 1].t = ":"
            /\ toks[i + 2].t \in {"str", "num"}) THEN DecodeError
  ELSE LET isStr == toks[i + 2].t = "str"
           m2 == IF isStr
                 THEN MapSet(m, Unquote(toks[i].s), Unquote(toks[i + 2].s))
                 ELSE m
           e2 == typeErr \/ ~isStr
       IN IF toks[i + 3].t = "}" THEN [err |-> e2, m |-> m2]
          ELSE IF toks[i + 3].t = "," THEN decodeMembers(toks, i + 4, m2, e2)
          ELSE DecodeError

\* json.NewDecoder(body).Decode(&m), m a map[string]string: the first JSON
\* value of the body is decoded and what follows it is left unread.  An empty
\* body is io.EOF; null leaves the map empty; a value that is no object is an
\* error.
Decode(toks) ==
  IF Len(toks) = 0 THEN DecodeError
  ELSE IF toks[1].t = "null" THEN [err |-> FALSE, m |-> EmptyMap]
  ELSE IF toks[1].t # "{" THEN DecodeError
  ELSE IF Len(toks) >= 2 /\ toks[2].t = "}" THEN [err |-> FALSE, m |-> EmptyMap]
  ELSE decodeMembers(toks, 2, EmptyMap, FALSE)

\* json.Marshal of a map[string]string: never an error.  The handler only
\* marshals one-entry maps, so the order of the keys is immaterial here.
RECURSIVE marshalMembers(_, _)
marshalMembers(m, keys) ==
  IF keys = {} THEN <<>>
  ELSE LET k == CHOOSE x \in keys : TRUE
           rest == marshalMembers(m, keys \ {k})
       IN <<StrTok(Quote(k)), Tok(":"), StrTok(Quote(m[k]))>>
          \o (IF rest = <<>> THEN <<>> ELSE <<Tok(",")>> \o rest)

Marshal(m) ==
  [err |-> FALSE,
   b |-> <<Tok("{")>> \o marshalMembers(m, DOMAIN m) \o <<Tok("}")>>]

\* ------------------------------------------------------------------ inputs
Methods == {"GET", "POST", "DELETE", "PUT"}

PathKeyA == KeyPrefix \o <<"/", "a">>
PathKeyNone == KeyPrefix \o <<"/">>
PathUnknown == <<"/", "u", "n", "k", "n", "o", "w", "n">>
PathJoinSlash == JoinPath \o <<"/">>

PathKeyBare == KeyPrefix
PathKeyDeep == KeyPrefix \o <<"/", "a", "/", "b">>
PathKeyxA == KeyPrefix \o <<"x", "/", "a">>

KeyPaths == {PathKeyA, PathKeyNone}
\* Other paths that ServeHTTP's prefix match hands to handleKeyRequest.
PrefixPaths == {PathKeyBare, PathKeyDeep, PathKeyxA}
OtherPaths == {PathUnknown, PathJoinSlash}

NoBody == <<>>

\* The text of an object whose members are the given <<key, value>> pairs of
\* string literals.
RECURSIVE memberToks(_)
memberToks(pairs) ==
  IF pairs = <<>> THEN <<>>
  ELSE <<StrTok(pairs[1][1]), Tok(":"), StrTok(pairs[1][2])>>
       \o (IF Len(pairs) = 1 THEN <<>> ELSE <<Tok(",")>> \o memberToks(Tail(pairs)))

ObjectText(pairs) == <<Tok("{")>> \o memberToks(pairs) \o <<Tok("}")>>

BodyA1 == ObjectText(<< <<<<"a">>, <<"1">>>> >>)
BodyB2 == ObjectText(<< <<<<"b">>, <<"2">>>> >>)
BodyJoin == ObjectText(<< <<IdField, <<"n">>>>, <<AddrField, <<"h">>>> >>)

PostBodies ==
  { NoBody,
    ObjectText(<<>>),
    BodyA1,
    ObjectText(<< <<<<"a">>, <<"<">>>> >>),
    ObjectText(<< <<<<"a">>, <<"1">>>>, <<<<"b">>, <<EscLt>>>> >>),
    <<Tok("{"), StrTok(<<"a">>), Tok(":"), Tok("num"), Tok("}")>> }

JoinBodies ==
  { <<Tok("{"), StrTok(IdField)>>,
    BodyJoin,
    ObjectText(<< <<IdField, <<"n">>>> >>),
    ObjectText(<< <<IdField, <<"n">>>>, <<<<"x">>, <<"h">>>> >>),
    ObjectText(<< <<AddrField, <<"h">>>>, <<<<"x">>, <<"n">>>> >>),
    ObjectText(<< <<IdField, <<"n">>>>, <<AddrField, <<"h">>>>, <<<<"x">>, <<"y">>>> >>) }

Request(method, path, body) == [method |-> method, path |-> path, body |-> body]

Requests ==
  {Request(me, p, NoBody) : me \in {"GET", "DELETE", "PUT"}, p \in KeyPaths}
  \cup {Request(me, p, NoBody) : me \in {"GET", "DELETE"}, p \in PrefixPaths}
  \cup {Request("POST", PathKeyA, b) : b \in PostBodies}
  \cup {Request("POST", PathKeyNone, b) : b \in {NoBody, BodyA1, BodyB2}}
  \cup {Request("POST", JoinPath, b) : b \in JoinBodies}
  \cup {Request("GET", JoinPath, b) : b \in {NoBody, BodyJoin}}
  \cup {Request(me, StatusPath, NoBody) : me \in {"GET", "POST"}}
  \cup {Request(me, p, NoBody) : me \in {"GET", "POST"}, p \in OtherPaths}

\* What Store.Status may answer.
StatusTexts == {<<[t |-> "raw", s |-> <<"Leader">>]>>, <<[t |-> "raw", s |-> <<"Follower">>]>>}

\* ------------------------------------------------------------------- state
VARIABLES
  store,                \* the Store's key-value contents
  members,              \* the nodes the Store has joined: <<nodeID, addr>>
  httpRequestsSummary,  \* observations per label set of http_requests
  httpErrorsCounter,    \* value per label set of http_request_errors
  conn,                 \* per worker: the request it is serving
  log,                  \* the finished exchanges, in the order they ended
  accepted,             \* requests accepted so far
  proc,                 \* the process: "running", "panicked" or "exited"
  mux,                  \* the patterns registered in http.DefaultServeMux
  svc,                  \* per Service: its ln field and its serving goroutine
  lifeLog               \* the Start and Close calls made, with their outcomes

reqVars == <<store, members, httpRequestsSummary, httpErrorsCounter, conn, log, accepted>>
lifeVars == <<proc, mux, svc, lifeLog>>
vars == <<store, members, httpRequestsSummary, httpErrorsCounter, conn, log, accepted,
          proc, mux, svc, lifeLog>>

\* The variable labels the two vectors are created with.
SummaryLabelNames == {"endpoint", "method"}
ErrorLabelNames == {"endpoint", "method", "status"}

SummaryLabels == [endpoint : {EndpointKey}, method : Methods]
ErrorLabels ==
  [endpoint : {EndpointKey}, method : Methods,
   status : {Sprint(StatusBadRequest), Sprint(StatusMethodNotAllowed),
             Sprint(StatusInternalServerError)}]

\* ----------------------------------------------------------------- Store
\* The Store behind the service keeps what it is given.  Whether a call
\* returns an error is the Store's to decide: an input of each step.  A call
\* that returns an error has changed nothing.
StoreGet(kv, k) == IF k \in DOMAIN kv THEN kv[k] ELSE <<>>
StoreSet(kv, k, v) == MapSet(kv, k, v)
StoreDelete(kv, k) == [x \in DOMAIN kv \ {k} |-> kv[x]]
StoreJoin(nodes, nodeID, addr) == nodes \cup {<<nodeID, addr>>}

\* ------------------------------------------------------- handler execution
\* The state of one handler execution: the ResponseWriter w, the labels map
\* of handleKeyRequest, and what the execution has done so far: its Store
\* calls, its increments of the error counter, its latency observations, and
\* whether it ended in a panic.
NewHandler(labels) ==
  [w |-> [wroteHeader |-> FALSE, status |-> StatusOK, body |-> <<>>],
   labels |-> labels,
   calls |-> <<>>,
   incs |-> <<>>,
   obs |-> <<>>,
   panicked |-> FALSE]

\* The labels map handleKeyRequest starts with.
KeyLabels(method) == [endpoint |-> EndpointKey, method |-> method]

\* labels["status"] = value
SetStatusLabel(labels, value) ==
  [n \in DOMAIN labels \cup {"status"} |-> IF n = "status" THEN value ELSE labels[n]]

\* ResponseWriter.WriteHeader: the first status written is the response's;
\* a later call is superfluous and changes nothing.
WriteHeader(h, code) ==
  IF h.w.wroteHeader THEN h
  ELSE [h EXCEPT !.w.wroteHeader = TRUE, !.w.status = code]

\* io.WriteString(w, data): writes the header with 200 unless one is written.
WriteString(h, data) ==
  LET h1 == WriteHeader(h, StatusOK)
  IN [h1 EXCEPT !.w.body = @ \o data]

\* vec.With(labels) panics unless labels names exactly the vector's variable
\* labels (prometheus: inconsistent label cardinality).
WithOk(names, labels) == DOMAIN labels = names

\* httpErrorsCounter.With(labels).Inc()
IncErrors(h) ==
  IF WithOk(ErrorLabelNames, h.labels)
  THEN [h EXCEPT !.incs = Append(@, h.labels)]
  ELSE [h EXCEPT !.panicked = TRUE]

\* An error path that writes the status and forgets to count the error.
CountErrorNoInc(h, code) ==
  WriteHeader([h EXCEPT !.labels = SetStatusLabel(@, Sprint(code))], code)

\* The three lines of every error path of handleKeyRequest: set the status
\* label, count the error, write the status.
CountError(h, code) ==
  LET h1 == IncErrors([h EXCEPT !.labels = SetStatusLabel(@, Sprint(code))])
  IN IF h1.panicked THEN h1 ELSE WriteHeader(h1, code)

\* A handler whose deferred function records nothing.
DeferredObserveNothing(h) == h

\* The deferred function of handleKeyRequest, run when the handler returns:
\* httpRequestsSummary.With(labels).Observe(...), with the labels map as the
\* handler left it.  The closure shares the map with the handler body, so a
\* "status" entry set on an error path is in it, and With panics.  The panic
\* leaves the handler; net/http recovers it, logs it and closes the
\* connection without writing the response the handler had buffered.
DeferredObserve(h) ==
  IF WithOk(SummaryLabelNames, h.labels)
  THEN [h EXCEPT !.obs = Append(@, h.labels)]
  ELSE [h EXCEPT !.panicked = TRUE]

\* The record of a Store call: Get(a), Set(a, b), Delete(a), Join(a, b), Status().
Call(h, op, a, b, err) ==
  [h EXCEPT !.calls = Append(@, [op |-> op, a |-> a, b |-> b, err |-> err])]

\* getKey that returns the segment before the key name.
getKeyWrongPart(path) ==
  LET parts == Split(path, "/")
  IN IF Len(parts) # 3 THEN <<>> ELSE parts[2]

\* getKey of handleKeyRequest.
getKey(path) ==
  LET parts == Split(path, "/")
  IN IF Len(parts) # 3 THEN <<>> ELSE parts[3]

\* A routing that matches the join path by prefix, as it does the key path.
RouteJoinByPrefix(path) ==
  IF HasPrefix(path, KeyPrefix) THEN "key"
  ELSE IF HasPrefix(path, JoinPath) THEN "join"
  ELSE IF path = StatusPath THEN "status"
  ELSE "notfound"

\* ServeHTTP's choice of a handler.
Route(path) ==
  IF HasPrefix(path, KeyPrefix) THEN "key"
  ELSE IF path = JoinPath THEN "join"
  ELSE IF path = StatusPath THEN "status"
  ELSE "notfound"

\* case "GET" of handleKeyRequest; err: whether Store.Get returns an error.
handleGet(h, path, kv, err) ==
  LET k == getKey(path)
      h1 == IF k = <<>> THEN CountError(h, StatusBadRequest) ELSE h
      v == StoreGet(kv, k)
      h2 == Call(h1, "Get", k, <<>>, err)
      mb == Marshal(MapSet(EmptyMap, k, v))
  IN IF h1.panicked THEN h1
     ELSE IF err THEN CountError(h2, StatusInternalServerError)
     ELSE IF mb.err THEN CountError(h2, StatusInternalServerError)
     ELSE WriteString(h2, mb.b)

\* A join validation without the check of the number of entries.
joinRequestAnyCount(body) ==
  LET d == Decode(body)
  IN IF d.err THEN [call |-> FALSE, nodeID |-> <<>>, addr |-> <<>>]
     ELSE IF AddrField \notin DOMAIN d.m THEN [call |-> FALSE, nodeID |-> <<>>, addr |-> <<>>]
     ELSE IF IdField \notin DOMAIN d.m THEN [call |-> FALSE, nodeID |-> <<>>, addr |-> <<>>]
     ELSE [call |-> TRUE, nodeID |-> d.m[IdField], addr |-> d.m[AddrField]]

\* handleJoin up to its Store call: "call" says whether Store.Join is called,
\* and with what.
joinRequest(body) ==
  LET d == Decode(body)
  IN IF d.err THEN [call |-> FALSE, nodeID |-> <<>>, addr |-> <<>>]
     ELSE IF Cardinality(DOMAIN d.m) # 2 THEN [call |-> FALSE, nodeID |-> <<>>, addr |-> <<>>]
     ELSE IF AddrField \notin DOMAIN d.m THEN [call |-> FALSE, nodeID |-> <<>>, addr |-> <<>>]
     ELSE IF IdField \notin DOMAIN d.m THEN [call |-> FALSE, nodeID |-> <<>>, addr |-> <<>>]
     ELSE [call |-> TRUE, nodeID |-> d.m[IdField], addr |-> d.m[AddrField]]

\* A handleJoin instrumented the way handleKeyRequest is: its rejections are
\* counted as errors.
handleJoinCounted(h, body, err) ==
  LET j == joinRequest(body)
      h1 == Call(h, "Join", j.nodeID, j.addr, err)
  IN IF ~j.call
     THEN CountError([h EXCEPT !.labels = KeyLabels("POST")], StatusBadRequest)
     ELSE IF err THEN WriteHeader(h1, StatusInternalServerError)
     ELSE h1

\* A handleJoin that records the node with Store.Set instead of Store.Join.
handleJoinBySet(h, body, err) ==
  LET j == joinRequest(body)
      h1 == Call(h, "Set", j.nodeID, j.addr, err)
  IN IF ~j.call THEN WriteHeader(h, StatusBadRequest)
     ELSE IF err THEN WriteHeader(h1, StatusInternalServerError)
     ELSE h1

\* handleJoin; err: whether Store.Join returns an error.
handleJoin(h, body, err) ==
  LET j == joinRequest(body)
      h1 == Call(h, "Join", j.nodeID, j.addr, err)
  IN IF ~j.call THEN WriteHeader(h, StatusBadRequest)
     ELSE IF err THEN WriteHeader(h1, StatusInternalServerError)
     ELSE h1

\* handleStatus; text: what Store.Status returns.
handleStatus(h, text) == WriteString(Call(h, "Status", <<>>, <<>>, FALSE), text)

\* case "POST" of handleKeyRequest, up to the range over m.
postDecode(h, body) ==
  LET d == Decode(body)
  IN IF d.err THEN [h |-> CountError(h, StatusBadRequest), ok |-> FALSE, m |-> EmptyMap]
     ELSE [h |-> h, ok |-> TRUE, m |-> d.m]

\* One turn of the range over m: s.store.Set(k, v) and its error path.
postSet(h, k, v, err) ==
  LET h1 == Call(h, "Set", k, v, err)
  IN IF err THEN CountError(h1, StatusInternalServerError) ELSE h1

\* case "DELETE" of handleKeyRequest up to and including its first
\* s.store.Delete(k); "again" says whether the handler goes on to the second.
deleteFirst(h, path, err) ==
  LET k == getKey(path)
      h1 == Call(h, "Delete", k, <<>>, err)
  IN IF k = <<>> THEN [h |-> CountError(h, StatusBadRequest), called |-> FALSE, again |-> FALSE]
     ELSE IF err THEN [h |-> CountError(h1, StatusInternalServerError), called |-> TRUE, again |-> FALSE]
     ELSE [h |-> h1, called |-> TRUE, again |-> TRUE]

\* The second s.store.Delete(k) of case "DELETE": its error is dropped.
deleteAgain(h, k, err) == Call(h, "Delete", k, <<>>, err)

\* The default case of handleKeyRequest.
handleOtherMethod(h) == CountError(h, StatusMethodNotAllowed)

\* The else branch of ServeHTTP.
handleNotFound(h) == WriteHeader(h, StatusNotFound)

\* ------------------------------------------------------------ the machine
IdleConn ==
  [pc |-> "idle", req |-> Request("", <<>>, <<>>), h |-> NewHandler(EmptyMap),
   m |-> EmptyMap, rest |-> {}, k |-> <<>>, overlap |-> FALSE]

Init ==
  /\ store = EmptyMap
  /\ members = {}
  /\ httpRequestsSummary = [l \in SummaryLabels |-> 0]
  /\ httpErrorsCounter = [l \in ErrorLabels |-> 0]
  /\ conn = [w \in Workers |-> IdleConn]
  /\ log = <<>>
  /\ accepted = 0
  /\ proc = "running"
  /\ mux = {}
  /\ svc = [s \in Services |-> [ln |-> "nil", serving |-> FALSE]]
  /\ lifeLog = <<>>

Busy(o) == conn[o].pc # "idle"

Times(seq, x) == Cardinality({i \in DOMAIN seq : seq[i] = x})

\* The registry after the metric updates the execution made in this step.
\* Serving a request makes no Start or Close call.
Account(hOld, hNew) ==
  LET incs == SubSeq(hNew.incs, Len(hOld.incs) + 1, Len(hNew.incs))
      obs == SubSeq(hNew.obs, Len(hOld.obs) + 1, Len(hNew.obs))
  IN /\ httpErrorsCounter' =
          [l \in DOMAIN httpErrorsCounter |-> httpErrorsCounter[l] + Times(incs, l)]
     /\ httpRequestsSummary' =
          [l \in DOMAIN httpRequestsSummary |-> httpRequestsSummary[l] + Times(obs, l)]
     /\ UNCHANGED lifeVars

\* A finished exchange.  status and body are what the handler wrote to the
\* ResponseWriter; delivered says whether the server sent them: a handler
\* that panics has its connection closed with the buffered response dropped.
Entry(req, h, overlap) ==
  [req |-> req, status |-> h.w.status, body |-> h.w.body,
   delivered |-> ~h.panicked, calls |-> h.calls, incs |-> h.incs,
   obs |-> h.obs, overlap |-> overlap]

\* Worker w accepts req and its handler runs to its end in this step.
ServeEnd(w, req, h) ==
  LET ov == \E o \in Workers \ {w} : Busy(o)
  IN /\ accepted' = accepted + 1
     /\ log' = Append(log, Entry(req, h, ov))
     /\ conn' = [o \in Workers |->
                   IF o # w /\ Busy(o) THEN [conn[o] EXCEPT !.overlap = TRUE]
                   ELSE conn[o]]
     /\ Account(NewHandler(EmptyMap), h)

\* Worker w accepts req and its handler is left at pc.
ServeHold(w, req, h, pc, m, k) ==
  LET ov == \E o \in Workers \ {w} : Busy(o)
  IN /\ accepted' = accepted + 1
     /\ log' = log
     /\ conn' = [o \in Workers |->
                   IF o = w
                   THEN [pc |-> pc, req |-> req, h |-> h, m |-> m,
                         rest |-> DOMAIN m, k |-> k, overlap |-> ov]
                   ELSE IF Busy(o) THEN [conn[o] EXCEPT !.overlap = TRUE]
                   ELSE conn[o]]
     /\ Account(NewHandler(EmptyMap), h)

\* The handler of worker w runs on to its end.
StepEnd(w, h) ==
  /\ accepted' = accepted
  /\ log' = Append(log, Entry(conn[w].req, h, conn[w].overlap))
  /\ conn' = [conn EXCEPT ![w] = IdleConn]
  /\ Account(conn[w].h, h)

Accepting(w) == conn[w].pc = "idle" /\ accepted < MaxRequests

KeyGet(w) ==
  /\ Accepting(w)
  /\ \E req \in Requests, err \in BOOLEAN :
       /\ Route(req.path) = "key"
       /\ req.method = "GET"
       /\ ServeEnd(w, req,
            DeferredObserve(handleGet(NewHandler(KeyLabels(req.method)), req.path, store, err)))
  /\ UNCHANGED <<store, members>>

KeyPost(w) ==
  /\ Accepting(w)
  /\ \E req \in Requests :
       /\ Route(req.path) = "key"
       /\ req.method = "POST"
       /\ LET p == postDecode(NewHandler(KeyLabels(req.method)), req.body)
          IN IF p.ok /\ DOMAIN p.m # {}
             THEN ServeHold(w, req, p.h, "range", p.m, <<>>)
             ELSE ServeEnd(w, req, DeferredObserve(p.h))
  /\ UNCHANGED <<store, members>>

\* The range over a Go map visits its entries in an order of its own.
PostSetWith(w, errs) ==
  /\ conn[w].pc = "range"
  /\ \E k \in conn[w].rest, err \in errs :
       LET h == postSet(conn[w].h, k, conn[w].m[k], err)
           rest == conn[w].rest \ {k}
       IN /\ store' = IF err THEN store ELSE StoreSet(store, k, conn[w].m[k])
          /\ IF err \/ rest = {}
             THEN StepEnd(w, DeferredObserve(h))
             ELSE /\ conn' = [conn EXCEPT ![w].h = h, ![w].rest = rest]
                  /\ Account(conn[w].h, h)
                  /\ UNCHANGED <<log, accepted>>
  /\ UNCHANGED members

PostSet(w) == PostSetWith(w, BOOLEAN)

\* The same turn against a Store whose Set does not fail.
PostSetOk(w) == PostSetWith(w, {FALSE})

KeyDelete(w) ==
  /\ Accepting(w)
  /\ \E req \in Requests, err \in BOOLEAN :
       /\ Route(req.path) = "key"
       /\ req.method = "DELETE"
       /\ LET d == deleteFirst(NewHandler(KeyLabels(req.method)), req.path, err)
          IN /\ store' = IF d.called /\ ~err THEN StoreDelete(store, getKey(req.path)) ELSE store
             /\ IF d.again
                THEN ServeHold(w, req, d.h, "delete2", EmptyMap, getKey(req.path))
                ELSE ServeEnd(w, req, DeferredObserve(d.h))
  /\ UNCHANGED members

DeleteAgain(w) ==
  /\ conn[w].pc = "delete2"
  /\ \E err \in BOOLEAN :
       /\ store' = IF err THEN store ELSE StoreDelete(store, conn[w].k)
       /\ StepEnd(w, DeferredObserve(deleteAgain(conn[w].h, conn[w].k, err)))
  /\ UNCHANGED members

KeyOther(w) ==
  /\ Accepting(w)
  /\ \E req \in Requests :
       /\ Route(req.path) = "key"
       /\ req.method \notin {"GET", "POST", "DELETE"}
       /\ ServeEnd(w, req, DeferredObserve(handleOtherMethod(NewHandler(KeyLabels(req.method)))))
  /\ UNCHANGED <<store, members>>

Join(w) ==
  /\ Accepting(w)
  /\ \E req \in Requests, err \in BOOLEAN :
       /\ Route(req.path) = "join"
       /\ LET j == joinRequest(req.body)
          IN members' = IF j.call /\ ~err THEN StoreJoin(members, j.nodeID, j.addr)
                        ELSE members
       /\ ServeEnd(w, req, handleJoin(NewHandler(EmptyMap), req.body, err))
  /\ UNCHANGED store

Status(w) ==
  /\ Accepting(w)
  /\ \E req \in Requests, text \in StatusTexts :
       /\ Route(req.path) = "status"
       /\ ServeEnd(w, req, handleStatus(NewHandler(EmptyMap), text))
  /\ UNCHANGED <<store, members>>

NotFound(w) ==
  /\ Accepting(w)
  /\ \E req \in Requests :
       /\ Route(req.path) = "notfound"
       /\ ServeEnd(w, req, handleNotFound(NewHandler(EmptyMap)))
  /\ UNCHANGED <<store, members>>

Next ==
  \E w \in Workers :
    \/ KeyGet(w)
    \/ KeyPost(w)
    \/ PostSet(w)
    \/ KeyDelete(w)
    \/ DeleteAgain(w)
    \/ KeyOther(w)
    \/ Join(w)
    \/ Status(w)
    \/ NotFound(w)

Spec == Init /\ [][Next]_vars

\* POST requests only, against a Store that does not fail.  A goroutine that
\* can run is run in the end: a handler that has a Store call to make makes
\* it.
PostsNext == \E w \in Workers : KeyPost(w) \/ PostSetOk(w)

PostsSpec ==
  /\ Init
  /\ [][PostsNext]_vars
  /\ \A w \in Workers : WF_vars(PostSetOk(w))

\* -------------------------------------------------------------- lifecycle
\* A Start or Close call on Service s, as the process saw it end.
LifeCall(op, s, bound, result, registered, launched) ==
  [op |-> op, s |-> s, bound |-> bound, result |-> result,
   registered |-> registered, launched |-> launched]

Calling == proc = "running" /\ Len(lifeLog) < MaxCalls

\* Service.Start.  bound: whether net.Listen binds the address.  A bind that
\* fails returns the error.  Otherwise s.ln is set; http.Handle("/", s)
\* panics when the pattern "/" is registered in the default mux already, and
\* the panic leaves Start before the serving goroutine is launched.
Start(s) ==
  /\ Calling
  /\ \E bound \in BOOLEAN :
       IF ~bound
       THEN /\ lifeLog' = Append(lifeLog, LifeCall("Start", s, FALSE, "err", FALSE, FALSE))
            /\ UNCHANGED <<proc, mux, svc>>
       ELSE IF "/" \in mux
       THEN /\ svc' = [svc EXCEPT ![s].ln = "open"]
            /\ proc' = "panicked"
            /\ lifeLog' = Append(lifeLog, LifeCall("Start", s, TRUE, "panic", FALSE, FALSE))
            /\ UNCHANGED mux
       ELSE /\ svc' = [svc EXCEPT ![s].ln = "open", ![s].serving = TRUE]
            /\ mux' = mux \cup {"/"}
            /\ lifeLog' = Append(lifeLog, LifeCall("Start", s, TRUE, "ok", TRUE, TRUE))
            /\ UNCHANGED proc
  /\ UNCHANGED reqVars

\* Service.Close: s.ln.Close().  On a Service never started s.ln is nil and
\* the call panics; closing a closed listener returns an error, which is
\* dropped.
Close(s) ==
  /\ Calling
  /\ IF svc[s].ln = "nil"
     THEN /\ proc' = "panicked"
          /\ lifeLog' = Append(lifeLog, LifeCall("Close", s, FALSE, "panic", FALSE, FALSE))
          /\ UNCHANGED svc
     ELSE /\ svc' = [svc EXCEPT ![s].ln = "closed"]
          /\ lifeLog' = Append(lifeLog, LifeCall("Close", s, FALSE, "ok", FALSE, FALSE))
          /\ UNCHANGED proc
  /\ UNCHANGED mux
  /\ UNCHANGED reqVars

\* The goroutine Start launched: server.Serve(s.ln) returns when its listener
\* is closed, always with an error that is not nil, and log.Fatalf ends the
\* process.
ServeReturns(s) ==
  /\ proc = "running"
  /\ svc[s].serving
  /\ svc[s].ln = "closed"
  /\ proc' = "exited"
  /\ svc' = [svc EXCEPT ![s].serving = FALSE]
  /\ UNCHANGED <<mux, lifeLog>>
  /\ UNCHANGED reqVars

LifeNext == \E s \in Services : Start(s) \/ Close(s) \/ ServeReturns(s)

LifeSpec == Init /\ [][LifeNext]_vars

\* ------------------------------------------------------------ properties
\* What the properties say of a finished exchange e, in the words of the
\* HTTP surface rather than of the handlers.
KeyAccess(e) == HasPrefix(e.req.path, KeyPrefix)
Unrouted(e) ==
  /\ ~HasPrefix(e.req.path, KeyPrefix)
  /\ e.req.path # JoinPath
  /\ e.req.path # StatusPath
Segments(path) == Split(path, "/")
NoKey(path) == Len(Segments(path)) # 3 \/ Segments(path)[3] = <<>>
ValidKey(k) == k # <<>> /\ \A i \in DOMAIN k : k[i] # "/"
StoreFailed(e) == \E i \in DOMAIN e.calls : e.calls[i].err
CallsOf(e, op) == {i \in DOMAIN e.calls : e.calls[i].op = op}
\* The status the client receives: 0 when the connection is closed with no
\* response sent.
Answered(e) == IF e.delivered THEN e.status ELSE 0

RECURSIVE LoggedIncs(_, _)
LoggedIncs(l, n) == IF n = 0 THEN 0 ELSE Times(log[n].incs, l) + LoggedIncs(l, n - 1)

\* C1: the observations recorded under (endpoint="/key", method) are as many
\* as the key-access requests of that method that were handled, the ones
\* that took an error path included.
C1_ObservationPerKeyRequest ==
  \A me \in Methods :
    httpRequestsSummary[KeyLabels(me)] =
      Cardinality({i \in DOMAIN log : KeyAccess(log[i]) /\ log[i].req.method = me})

\* C2: a request in which a Store operation returned an error is answered
\* with status 500.
C2_StoreErrorAnswered500 ==
  \A i \in DOMAIN log :
    StoreFailed(log[i]) => Answered(log[i]) = StatusInternalServerError

\* C3: a key-access request whose handler wrote a status other than 200 has
\* incremented the error counter under (endpoint="/key", its method, that
\* status as a string); one that ends with 200 has not incremented it; and
\* the counter holds exactly the increments of the finished requests.
C3_ErrorCounted ==
  /\ \A i \in DOMAIN log :
       KeyAccess(log[i]) =>
         /\ log[i].status # StatusOK =>
              Times(log[i].incs,
                    [endpoint |-> "/key", method |-> log[i].req.method,
                     status |-> ToString(log[i].status)]) >= 1
         /\ log[i].status = StatusOK => log[i].incs = <<>>
  /\ \A l \in ErrorLabels : httpErrorsCounter[l] = LoggedIncs(l, Len(log))

C3_Witness ==
  \E i \in DOMAIN log :
    /\ KeyAccess(log[i])
    /\ log[i].status = StatusMethodNotAllowed
    /\ httpErrorsCounter[[endpoint |-> "/key", method |-> "PUT", status |-> "405"]] = 1

\* The POST of one pair p followed by the GET g of that pair's key, nothing
\* else running meanwhile and the Store failing neither.
PostThenGet(p, g) ==
  LET d == Decode(p.req.body)
  IN /\ KeyAccess(p) /\ p.req.method = "POST"
     /\ ~d.err /\ Cardinality(DOMAIN d.m) = 1
     /\ KeyAccess(g) /\ g.req.method = "GET"
     /\ \E k \in DOMAIN d.m : ValidKey(k) /\ g.req.path = KeyPrefix \o <<"/">> \o k
     /\ ~p.overlap /\ ~g.overlap
     /\ ~StoreFailed(p) /\ ~StoreFailed(g)

\* C4: a POST of {k: v} followed by a GET of /key/k is answered with 200 and
\* a body that is the JSON object {k: v}.
C4_PostThenGet ==
  \A i \in DOMAIN log :
    (i < Len(log) /\ PostThenGet(log[i], log[i + 1])) =>
       /\ Answered(log[i + 1]) = StatusOK
       /\ Decode(log[i + 1].body) = [err |-> FALSE, m |-> Decode(log[i].req.body).m]

C4_Witness ==
  \E i \in DOMAIN log :
    /\ i < Len(log)
    /\ PostThenGet(log[i], log[i + 1])
    /\ log[i + 1].body = <<Tok("{"), StrTok(<<"a">>), Tok(":"), StrTok(<<EscLt>>), Tok("}")>>

\* C5: a step that ends a request to a path no handler is routed for answers
\* it with 404 and leaves the Store, the latency summary and the error
\* counter as they were, with no Store operation invoked.
C5_NotFoundFrame ==
  [][(Len(log') = Len(log) + 1 /\ Unrouted(log'[Len(log')])) =>
       /\ Answered(log'[Len(log')]) = StatusNotFound
       /\ log'[Len(log')].calls = <<>>
       /\ UNCHANGED <<store, members, httpRequestsSummary, httpErrorsCounter>>]_vars

C5_Witness ==
  \E i \in DOMAIN log :
    /\ Unrouted(log[i])
    /\ Answered(log[i]) = StatusNotFound
    /\ log[i].req.path = PathJoinSlash

\* C6: a GET to a key path with no key counts an error under status 400, is
\* answered with 400, and has invoked Store.Get exactly once, with the empty
\* key.
C6_GetNoKey ==
  \A i \in DOMAIN log :
    (KeyAccess(log[i]) /\ log[i].req.method = "GET" /\ NoKey(log[i].req.path)) =>
       /\ Times(log[i].incs, [endpoint |-> "/key", method |-> "GET", status |-> "400"]) = 1
       /\ Answered(log[i]) = StatusBadRequest
       /\ Len(log[i].calls) = 1
       /\ log[i].calls[1].op = "Get"
       /\ log[i].calls[1].a = <<>>

\* C7: a DELETE to a key path with no key is answered with 400 and invokes no
\* Store operation.
C7_DeleteNoKey ==
  \A i \in DOMAIN log :
    (KeyAccess(log[i]) /\ log[i].req.method = "DELETE" /\ NoKey(log[i].req.path)) =>
       /\ Answered(log[i]) = StatusBadRequest
       /\ log[i].calls = <<>>

\* C8: a DELETE with a non-empty key invokes Store.Delete exactly once,
\* whether the call succeeds or fails.
C8_DeleteOnce ==
  \A i \in DOMAIN log :
    (KeyAccess(log[i]) /\ log[i].req.method = "DELETE" /\ ~NoKey(log[i].req.path)) =>
       Cardinality(CallsOf(log[i], "Delete")) = 1

\* C9: a POST whose body decodes to the mapping m invokes Store.Set on pairs
\* of m only, each pair at most once and none after a Set that failed; a
\* failed Set is answered with 500; with no failure every pair of m is set
\* exactly once and the answer is 200.
C9_PostSets ==
  \A i \in DOMAIN log :
    LET e == log[i]
        d == Decode(e.req.body)
    IN (KeyAccess(e) /\ e.req.method = "POST" /\ ~d.err) =>
         /\ \A c \in DOMAIN e.calls :
              /\ e.calls[c].op = "Set"
              /\ e.calls[c].a \in DOMAIN d.m
              /\ e.calls[c].b = d.m[e.calls[c].a]
              /\ \A c2 \in DOMAIN e.calls : e.calls[c2].a = e.calls[c].a => c2 = c
              /\ e.calls[c].err => c = Len(e.calls)
         /\ StoreFailed(e) => Answered(e) = StatusInternalServerError
         /\ ~StoreFailed(e) =>
              /\ Len(e.calls) = Cardinality(DOMAIN d.m)
              /\ Answered(e) = StatusOK

\* The body decodes to exactly the two entries "id" and "addr".
JoinShape(body) ==
  /\ ~Decode(body).err
  /\ DOMAIN Decode(body).m = {IdField, AddrField}

\* C10: a request to /join invokes Store.Join if and only if its body
\* decodes to exactly the two entries "id" and "addr", and then once, with
\* the "id" value as nodeID and the "addr" value as addr; every other join
\* request is answered with 400 and invokes no Store operation.
C10_JoinValidated ==
  \A i \in DOMAIN log :
    LET e == log[i]
        m == Decode(e.req.body).m
    IN e.req.path = JoinPath =>
         /\ JoinShape(e.req.body) =>
              /\ Len(e.calls) = 1
              /\ e.calls[1].op = "Join"
              /\ e.calls[1].a = m[IdField]
              /\ e.calls[1].b = m[AddrField]
         /\ ~JoinShape(e.req.body) =>
              /\ e.calls = <<>>
              /\ Answered(e) = StatusBadRequest

C10_Witness ==
  \E i, j \in DOMAIN log :
    /\ log[i].req.path = JoinPath
    /\ CallsOf(log[i], "Join") # {}
    /\ log[i].calls[1].a = <<"n">>
    /\ log[j].req.path = JoinPath
    /\ Cardinality(DOMAIN Decode(log[j].req.body).m) = 3
    /\ Answered(log[j]) = StatusBadRequest

\* C11: a key-access request with a method other than GET, POST and DELETE
\* is answered with 405, has incremented the error counter under status
\* "405" for its method, and has invoked no Store operation.
C11_OtherMethod405 ==
  \A i \in DOMAIN log :
    (KeyAccess(log[i]) /\ log[i].req.method \notin {"GET", "POST", "DELETE"}) =>
       /\ Answered(log[i]) = StatusMethodNotAllowed
       /\ Times(log[i].incs,
                [endpoint |-> "/key", method |-> log[i].req.method, status |-> "405"]) = 1
       /\ log[i].calls = <<>>

\* C12: a response whose status is not 200 has an empty body: whatever
\* handler wrote the status has written no payload with it.
C12_ErrorBodyEmpty ==
  \A i \in DOMAIN log : log[i].status # StatusOK => log[i].body = <<>>

\* C16: a key-access request increments the error counter at most once, and
\* then under the status of its response: the first status written.
C16_OneIncrement ==
  \A i \in DOMAIN log :
    KeyAccess(log[i]) =>
      /\ Len(log[i].incs) <= 1
      /\ Len(log[i].incs) = 1 => log[i].incs[1].status = ToString(log[i].status)

\* The exchange that ended in this step, if one did.
Ended == Len(log') = Len(log) + 1
LastEnded == log'[Len(log')]

\* C14: a step that ends a request to /join or /status, whatever its method,
\* body and outcome, changes neither the latency summary nor the error
\* counter.
C14_JoinStatusNotInstrumented ==
  [][(Ended /\ LastEnded.req.path \in {JoinPath, StatusPath}) =>
       UNCHANGED <<httpRequestsSummary, httpErrorsCounter>>]_vars

C14_Witness ==
  \E i, j \in DOMAIN log :
    /\ log[i].req.path = JoinPath
    /\ Answered(log[i]) = StatusInternalServerError
    /\ log[j].req.path = JoinPath
    /\ Answered(log[j]) = StatusBadRequest
    /\ log[j].req.method = "GET"

\* The Store operations the handler of exchange e may invoke.
OwnOps(e) ==
  IF KeyAccess(e)
  THEN (IF e.req.method = "GET" THEN {"Get"}
        ELSE IF e.req.method = "POST" THEN {"Set"}
        ELSE IF e.req.method = "DELETE" THEN {"Delete"}
        ELSE {})
  ELSE IF e.req.path = JoinPath THEN {"Join"}
  ELSE IF e.req.path = StatusPath THEN {"Status"}
  ELSE {}

ReadOnly(e) == (KeyAccess(e) /\ e.req.method = "GET") \/ e.req.path = StatusPath

\* C17: a request has invoked no Store operation but its handler's own (GET:
\* Get, POST: Set, DELETE: Delete, join: Join, status: Status), and the step
\* that ends a GET or a status request leaves the Store's contents as
\* they were.
C17_OwnStoreOperation ==
  [][Ended =>
       /\ \A c \in DOMAIN LastEnded.calls : LastEnded.calls[c].op \in OwnOps(LastEnded)
       /\ ReadOnly(LastEnded) => UNCHANGED <<store, members>>]_vars

C17_Witness ==
  \E i, j \in DOMAIN log :
    /\ KeyAccess(log[i]) /\ log[i].req.method = "GET"
    /\ CallsOf(log[i], "Get") # {}
    /\ store # EmptyMap
    /\ CallsOf(log[j], "Set") # {}

\* The path supplies a key: it splits into exactly the three segments "",
\* "key" and a key name.
SuppliesKey(path) ==
  /\ Len(Segments(path)) = 3
  /\ Segments(path)[1] = <<>>
  /\ Segments(path)[2] = <<"k", "e", "y">>
  /\ Segments(path)[3] # <<>>

\* C15: a key-access request whose path does not supply a key has issued no
\* Store.Get and no Store.Delete for a non-empty key.
C15_KeyOnlyFromKeyPath ==
  \A i \in DOMAIN log :
    (KeyAccess(log[i]) /\ ~SuppliesKey(log[i].req.path)) =>
       \A c \in DOMAIN log[i].calls :
         log[i].calls[c].op \in {"Get", "Delete"} => log[i].calls[c].a = <<>>

\* The mapping a POST in the log posted.
Posted(e) == Decode(e.req.body).m
GoodPost(e) ==
  /\ KeyAccess(e) /\ e.req.method = "POST"
  /\ ~Decode(e.req.body).err
  /\ ~StoreFailed(e)

\* Every request so far was a POST, all have ended, the Store failed none
\* of them, and no two of them posted the same key.
DisjointPostsEnded ==
  /\ \A w \in Workers : ~Busy(w)
  /\ \A i \in DOMAIN log : GoodPost(log[i])
  /\ \A i, j \in DOMAIN log :
       i # j => DOMAIN Posted(log[i]) \cap DOMAIN Posted(log[j]) = {}

PostsSucceeded ==
  /\ \A i \in DOMAIN log :
       /\ Answered(log[i]) = StatusOK
       /\ \A k \in DOMAIN Posted(log[i]) :
            k \in DOMAIN store /\ store[k] = Posted(log[i])[k]
  /\ \A l \in SummaryLabels :
       httpRequestsSummary[l] = IF l.method = "POST" THEN Len(log) ELSE 0
  /\ \A l \in ErrorLabels : httpErrorsCounter[l] = 0

\* C13: POSTs of disjoint keys against a Store that does not fail, however
\* their handlers interleave: each handler in progress ends, and when all
\* have ended each was answered with 200, every posted key holds its posted
\* value, the summary holds one observation per request and the error
\* counter none.
C13_ConcurrentPosts ==
  /\ [](DisjointPostsEnded => PostsSucceeded)
  /\ \A w \in Workers : (conn[w].pc = "range") ~> (conn[w].pc = "idle")

C13_Witness ==
  /\ DisjointPostsEnded
  /\ Len(log) >= 2
  /\ \A i \in DOMAIN log : log[i].overlap /\ DOMAIN Posted(log[i]) # {}
  /\ PostsSucceeded

\* C18: a Start whose bind succeeds returns no error, with the listener set
\* and the serving goroutine launched, however many Start calls came before
\* it; a Start whose bind fails returns the error, having registered no
\* handler and launched no goroutine.
C18_StartSucceeds ==
  \A i \in DOMAIN lifeLog :
    lifeLog[i].op = "Start" =>
      /\ lifeLog[i].bound => lifeLog[i].result = "ok" /\ lifeLog[i].launched
      /\ ~lifeLog[i].bound =>
           /\ lifeLog[i].result = "err"
           /\ ~lifeLog[i].registered
           /\ ~lifeLog[i].launched

\* C19: once a started Service is closed the process goes on: the serving
\* goroutine does not end it.
C19_CloseKeepsProcess ==
  \A s \in Services : svc[s].ln = "closed" => proc # "exited"

====
